---- MODULE Spec2Model ----
(***************************************************************************)
(* A model of src/src/lib.rs: FixedSizePriorityBuffer<T>, a FIFO queue of  *)
(* bounded size built from heap nodes (Box<Node<T>>) that are linked       *)
(* forwards by owning links (Link<T>) and backwards by raw pointers        *)
(* (Rawlink<Node<T>>), and insert_slice, which moves a run of nodes from   *)
(* one pair of boundary locations to another.                              *)
(*                                                                         *)
(* Memory is modelled explicitly.  A node address is a number of NodeIds,  *)
(* NONE is the null pointer / Option::None.  heap maps each address to the *)
(* node stored there; bufs maps each constructed buffer to its struct.     *)
(***************************************************************************)
EXTENDS Integers, Sequences, FiniteSets, TLC

\* ---------------------------------------------------------------- bounds
\* largest capacity passed to new() in Spec
MaxCap == 3
\* largest number of successful enqueue calls on one buffer
MaxEnq == 5
\* element values are 1..MaxVal
MaxVal == 2
\* capacities of the two buffers the splice specification builds its lists in
MaxLenA == 3
MaxLenB == 2

\* ptr::null_mut() / None
NONE == 0

Bufs == {"A", "B"}
Values == 1..MaxVal
\* enough addresses for the preallocated nodes and the list nodes of the buffers
MaxNodes == MaxCap + MaxLenA + MaxLenB + MaxEnq + 2
NodeIds == 1..MaxNodes

VARIABLES
  heap,      \* address -> Node{next, prev, value}, with alloc = FALSE for unused addresses
  new_arg,   \* buffer name -> the capacity its constructor was called with
  bufs,      \* buffer name -> FixedSizePriorityBuffer struct, for the constructed buffers
  ret,       \* the last call and how it ended; a panic unwinds the caller and an
             \* abort ends the process: no further call is made
  enq_hist,  \* per buffer: the values of the successful enqueue calls, in order
  deq_hist,  \* per buffer: the values returned by dequeue, in order
  reuse,     \* per buffer: progress of a "full, k dequeues, j enqueues" run
  pc,        \* number of successful insert_slice calls made so far
  pre        \* the memory before the first successful insert_slice call

vars == <<heap, new_arg, bufs, ret, enq_hist, deq_hist, reuse, pc, pre>>

\* ------------------------------------------------------------------ heap
\* an address no Box occupies
Unused == [alloc |-> FALSE, next |-> NONE, prev |-> NONE, value |-> NONE]

\* Node::new(v)
\* faulty variant: the value is not stored
Node_new_mut_empty(v) == [alloc |-> TRUE, next |-> NONE, prev |-> NONE, value |-> NONE]
Node_new(v) == [alloc |-> TRUE, next |-> NONE, prev |-> NONE, value |-> v]

\* Node::empty()
Node_empty == [alloc |-> TRUE, next |-> NONE, prev |-> NONE, value |-> NONE]

\* Box::new: the allocator hands out an address that holds no live node; which
\* one is not observable by the program, the model takes the least
BoxNew(h) == CHOOSE a \in NodeIds : ~h[a].alloc /\ \A c \in NodeIds : ~h[c].alloc => a <= c

\* link_no_prev: next.prev = Rawlink::none(); Some(next)
\* faulty variant: prev is left as it was
link_no_prev_mut_keep(h, next) == h
link_no_prev(h, next) == [h EXCEPT ![next].prev = NONE]

\* the addresses reached from n by following next, at most fuel of them
RECURSIVE Chain(_, _, _)
Chain(h, n, fuel) ==
  IF n = NONE \/ fuel = 0 THEN <<>>
  ELSE <<n>> \o Chain(h, h[n].next, fuel - 1)

\* the set of elements of a sequence
Range(s) == {s[i] : i \in 1..Len(s)}

\* the values stored in a sequence of nodes
ValuesOf(h, ns) == [i \in 1..Len(ns) |-> h[ns[i]].value]

\* a Link<T> = Option<Box<Node<T>>> is dropped: the Box it holds is freed, and
\* with it the Boxes its next owns, down the chain
drop_link(h, link) ==
  [a \in NodeIds |-> IF a \in Range(Chain(h, link, MaxNodes)) THEN Unused ELSE h[a]]

\* Node::set_next(self, next): the ways the call can end, "ok" or "panic", and
\* the heap each leaves.  debug_assert!(self.next.is_none()) is compiled in
\* only with debug assertions.  When self.next holds a node, the build with
\* debug assertions panics and the unwinding drops next; the build without
\* them goes on: next.prev = Rawlink::some(self); self.next = Some(next), and
\* the assignment drops the link self.next held
set_next(h, self, next) ==
  IF h[self].next = NONE
  THEN {[res |-> "ok", heap |-> [h EXCEPT ![next].prev = self, ![self].next = next]]}
  ELSE {[res |-> "panic", heap |-> drop_link(h, next)],
        [res |-> "ok",
         heap |-> [drop_link(h, h[self].next) EXCEPT ![next].prev = self, ![self].next = next]]}

\* ------------------------------------------------------------------ usize
\* A usize is 64 bits wide.  TLC's integers are narrower, so a usize is kept
\* as its 4 digits in base 2^16, most significant first: 3 is <<0, 0, 0, 3>>
\* and usize::MAX = 18446744073709551615 is <<65535, 65535, 65535, 65535>>
LIMB == 65536

\* the usize of a number below 2^31
usize(n) == <<0, 0, n \div LIMB, n % LIMB>>

\* the number a usize stands for (TLC can compute it below 2^31)
usize_nat(u) == ((u[1] * LIMB + u[2]) * LIMB + u[3]) * LIMB + u[4]

\* a < b, a >= b on usize
usize_lt(a, b) == \E i \in 1..4 : a[i] < b[i] /\ \A j \in 1..(i - 1) : a[j] = b[j]
usize_ge(a, b) == ~usize_lt(a, b)

\* u + 1 and u - 1 modulo 2^64
wrapping_inc(u) ==
  LET k == IF \E i \in 1..4 : u[i] # LIMB - 1
           THEN CHOOSE i \in 1..4 : u[i] # LIMB - 1 /\ \A j \in (i + 1)..4 : u[j] = LIMB - 1
           ELSE 0
  IN [i \in 1..4 |-> IF i < k THEN u[i] ELSE IF i = k THEN u[i] + 1 ELSE 0]
wrapping_dec(u) ==
  LET k == IF \E i \in 1..4 : u[i] # 0
           THEN CHOOSE i \in 1..4 : u[i] # 0 /\ \A j \in (i + 1)..4 : u[j] = 0
           ELSE 0
  IN [i \in 1..4 |-> IF i < k THEN u[i] ELSE IF i = k THEN u[i] - 1 ELSE LIMB - 1]

\* ------------------------------------------------- FixedSizePriorityBuffer
\* the loop of new(): for _ in 1..capacity, a fresh empty node is put in front
\* of the chain built so far.  Returns the heap and the head of the chain.
RECURSIVE new_loop(_, _, _, _)
new_loop(h, first_empty, i, capacity) ==
  IF i >= capacity THEN [heap |-> h, first_empty |-> first_empty]
  ELSE LET next_empty == BoxNew(h)
           h1 == [h EXCEPT ![next_empty] = Node_empty]
           \* next_empty.next is none: set_next ends in one way
           h2 == (CHOOSE o \in set_next(h1, next_empty, first_empty) : TRUE).heap
       IN new_loop(h2, next_empty, i + 1, capacity)

\* FixedSizePriorityBuffer::new(capacity): the heap after it and the struct
new(h, capacity) ==
  LET first_empty == BoxNew(h)
      h1 == [h EXCEPT ![first_empty] = Node_empty]
      last_empty == first_empty
      r == new_loop(h1, first_empty, 1, capacity)
  IN [heap |-> link_no_prev(r.heap, r.first_empty),
      buf  |-> [capacity |-> usize(capacity), size |-> usize(0),
                first |-> NONE, last |-> NONE,
                first_empty |-> r.first_empty, last_empty |-> last_empty]]

\* FixedSizePriorityBuffer::size / capacity
size(m, b) == m.bufs[b].size
capacity(m, b) == m.bufs[b].capacity

\* the guard of enqueue: panic!("No remaining capacity to enqueue")
\* faulty variant: off by one, admits an element beyond capacity
enqueue_mut_full(m, b) == usize_lt(m.bufs[b].capacity, m.bufs[b].size)
enqueue_full(m, b) == usize_ge(m.bufs[b].size, m.bufs[b].capacity)

\* FixedSizePriorityBuffer::enqueue(element): the ways the call can end, "ok"
\* or "panic", and the memory each leaves
\* faulty variant: links the new node in front of the head
enqueue_mut_lifo(m, b, element) ==
  IF enqueue_full(m, b) THEN {[m |-> m, res |-> "panic"]}
  ELSE
    LET new_node == BoxNew(m.heap)
        h1 == [m.heap EXCEPT ![new_node] = Node_new(element)]
        old == m.bufs[b].first
    IN IF old = NONE
       THEN {[m |-> [heap |-> h1,
                     bufs |-> [m.bufs EXCEPT ![b].first = new_node, ![b].last = new_node,
                                             ![b].size = wrapping_inc(@)]],
              res |-> "ok"]}
       ELSE {[m |-> [heap |-> link_no_prev(o.heap, new_node),
                     bufs |-> [m.bufs EXCEPT ![b].first = new_node, ![b].size = wrapping_inc(@)]],
              res |-> "ok"] : o \in set_next(h1, new_node, old)}
\* faulty variant: a full buffer ignores the element and returns normally
enqueue_mut_silent(m, b, element) ==
  IF enqueue_full(m, b) THEN {[m |-> m, res |-> "ok"]}
  ELSE
    LET new_node == BoxNew(m.heap)
        h1 == [m.heap EXCEPT ![new_node] = Node_new(element)]
        node == m.bufs[b].last
    IN IF node = NONE
       THEN {[m |-> [heap |-> h1,
                     bufs |-> [m.bufs EXCEPT ![b].first = new_node, ![b].last = new_node,
                                             ![b].size = wrapping_inc(@)]],
              res |-> "ok"]}
       ELSE {[m |-> [heap |-> o.heap,
                     bufs |-> [m.bufs EXCEPT ![b].last = new_node, ![b].size = wrapping_inc(@)]],
              res |-> "ok"] : o \in set_next(h1, node, new_node)}
\* faulty variant: size is not incremented
enqueue_mut_nocount(m, b, element) ==
  IF enqueue_full(m, b) THEN {[m |-> m, res |-> "panic"]}
  ELSE
    LET new_node == BoxNew(m.heap)
        h1 == [m.heap EXCEPT ![new_node] = Node_new(element)]
        node == m.bufs[b].last
    IN IF node = NONE
       THEN {[m |-> [heap |-> h1,
                     bufs |-> [m.bufs EXCEPT ![b].first = new_node, ![b].last = new_node]],
              res |-> "ok"]}
       ELSE {[m |-> [heap |-> o.heap,
                     bufs |-> [m.bufs EXCEPT ![b].last = new_node]],
              res |-> "ok"] : o \in set_next(h1, node, new_node)}
enqueue(m, b, element) ==
  IF enqueue_full(m, b) THEN {[m |-> m, res |-> "panic"]}
  ELSE
    LET new_node == BoxNew(m.heap)
        h1 == [m.heap EXCEPT ![new_node] = Node_new(element)]
        node == m.bufs[b].last
    IN IF node = NONE
       THEN \* self.first = Some(new_node): the assignment drops the link first
            \* held; self.last = Rawlink::from(&mut self.first); self.size += 1
            \* does not overflow, size being below capacity
            {[m |-> [heap |-> drop_link(h1, m.bufs[b].first),
                     bufs |-> [m.bufs EXCEPT ![b].first = new_node, ![b].last = new_node,
                                             ![b].size = wrapping_inc(@)]],
              res |-> "ok"]}
       ELSE \* node.set_next(new_node); self.last = Rawlink::from(&mut node.next);
            \* a panic of set_next unwinds enqueue, which has written nothing
            {IF o.res = "ok"
             THEN [m |-> [heap |-> o.heap,
                          bufs |-> [m.bufs EXCEPT ![b].last = new_node, ![b].size = wrapping_inc(@)]],
                   res |-> "ok"]
             ELSE [m |-> [heap |-> o.heap, bufs |-> m.bufs], res |-> "panic"]
             : o \in set_next(h1, node, new_node)}

\* FixedSizePriorityBuffer::dequeue(): the ways the call can end ("none",
\* "some" or "panic"), the memory each leaves and the value returned
\* faulty variant: size is not decremented
dequeue_mut_nocount(m, b) ==
  LET first_node == m.bufs[b].first IN
  IF first_node = NONE THEN {[m |-> m, res |-> "none", val |-> NONE]}
  ELSE
    LET node == m.heap[first_node].next
        value == m.heap[first_node].value
        h1 == IF node # NONE THEN link_no_prev(m.heap, node) ELSE m.heap
        b1 == IF node # NONE
              THEN [m.bufs EXCEPT ![b].first = node]
              ELSE [m.bufs EXCEPT ![b].first = NONE, ![b].last = NONE]
    IN {[m |-> [heap |-> [h1 EXCEPT ![first_node] = Unused], bufs |-> b1],
         res |-> "some", val |-> value]}
\* faulty variant: size is decremented on an empty buffer too
dequeue_mut_underflow(m, b) ==
  LET first_node == m.bufs[b].first IN
  IF first_node = NONE
  THEN {[m |-> [m EXCEPT !.bufs[b].size = wrapping_dec(@)], res |-> "none", val |-> NONE]}
  ELSE
    LET node == m.heap[first_node].next
        value == m.heap[first_node].value
        h1 == IF node # NONE THEN link_no_prev(m.heap, node) ELSE m.heap
        b1 == IF node # NONE
              THEN [m.bufs EXCEPT ![b].first = node, ![b].size = wrapping_dec(@)]
              ELSE [m.bufs EXCEPT ![b].first = NONE, ![b].last = NONE, ![b].size = wrapping_dec(@)]
    IN {[m |-> [heap |-> [h1 EXCEPT ![first_node] = Unused], bufs |-> b1],
         res |-> "some", val |-> value]}
dequeue(m, b) ==
  LET first_node == m.bufs[b].first IN
  IF first_node = NONE
  THEN \* self.first.take() is None: map does nothing
       {[m |-> m, res |-> "none", val |-> NONE]}
  ELSE
    LET \* self.size -= 1 on a usize of 0 with overflow checks: a panic; first
        \* is already taken, and the unwinding drops first_node with the nodes
        \* it owns
        overflow == [m |-> [heap |-> drop_link(m.heap, first_node),
                            bufs |-> [m.bufs EXCEPT ![b].first = NONE]],
                     res |-> "panic", val |-> NONE]
        node == m.heap[first_node].next
        value == m.heap[first_node].value
        \* Some(node) => self.first = link_no_prev(node); None => self.last = Rawlink::none()
        h1 == IF node # NONE THEN link_no_prev(m.heap, node) ELSE m.heap
        b1 == IF node # NONE
              THEN [m.bufs EXCEPT ![b].first = node, ![b].size = wrapping_dec(@)]
              ELSE [m.bufs EXCEPT ![b].first = NONE, ![b].last = NONE,
                                  ![b].size = wrapping_dec(@)]
        \* first_node goes out of scope: its Box is freed
        h2 == [h1 EXCEPT ![first_node] = Unused]
        done == IF value = NONE
                THEN \* expect("Value should always be Some when being dequeued")
                     [m |-> [heap |-> h2, bufs |-> b1], res |-> "panic", val |-> NONE]
                ELSE [m |-> [heap |-> h2, bufs |-> b1], res |-> "some", val |-> value]
    IN IF m.bufs[b].size = usize(0)
       THEN \* the build with overflow checks panics, the build without wraps
            \* to usize::MAX
            {overflow, done}
       ELSE {done}

\* ----------------------------------------------------------- insert_slice
\* A location is a place that holds a link: the first or last field of a
\* buffer, or the next or prev field of a node.  &mut Link<T> is a "first" or
\* "next" location, &mut Rawlink<Node<T>> a "last" or "prev" location.
LocFirst(b) == [k |-> "first", b |-> b, n |-> NONE]
LocLast(b)  == [k |-> "last",  b |-> b, n |-> NONE]
LocNext(n)  == [k |-> "next",  b |-> "-", n |-> n]
LocPrev(n)  == [k |-> "prev",  b |-> "-", n |-> n]

\* *l
Rd(m, l) ==
  CASE l.k = "first" -> m.bufs[l.b].first
    [] l.k = "last"  -> m.bufs[l.b].last
    [] l.k = "next"  -> m.heap[l.n].next
    [] l.k = "prev"  -> m.heap[l.n].prev

\* *l = v
Wr(m, l, v) ==
  CASE l.k = "first" -> [m EXCEPT !.bufs[l.b].first = v]
    [] l.k = "last"  -> [m EXCEPT !.bufs[l.b].last = v]
    [] l.k = "next"  -> [m EXCEPT !.heap[l.n].next = v]
    [] l.k = "prev"  -> [m EXCEPT !.heap[l.n].prev = v]

\* ptr::copy_nonoverlapping(src, dst, 1): the ways the call can end, "ok" or
\* "abort", and the memory each leaves.  seen is the memory at the time the
\* references of the enclosing block were taken.  The references are `&mut`:
\* the compiler may take them to name distinct locations and read *src before
\* the writes that precede the copy, so when locations coincide the value
\* copied is the one *src holds or the one it held in seen.  A copy from a
\* location to itself violates the precondition of copy_nonoverlapping: the
\* build with debug assertions aborts the process
\* faulty variant: source and destination are taken the other way round
copy_nonoverlapping_mut_reversed(seen, m, src, dst) ==
  {[res |-> "ok", m |-> Wr(m, src, Rd(m, dst))]}
copy_nonoverlapping(seen, m, src, dst) ==
  {[res |-> "ok", m |-> Wr(m, dst, v)] : v \in {Rd(m, src), Rd(seen, src)}}
    \cup (IF src = dst THEN {[res |-> "abort", m |-> m]} ELSE {})

\* the memory after the stores st[i] = <<location, value>> made in the order given
RECURSIVE store_all(_, _, _)
store_all(m, st, order) ==
  IF order = <<>> THEN m
  ELSE store_all(Wr(m, st[Head(order)][1], st[Head(order)][2]), st, Tail(order))

\* m is the memory after a block made the stores st in program order.  The
\* stores go through `&mut` references, which the compiler may take to name
\* distinct locations, so it may let them land in another order: the
\* memories the block can leave (m alone when the locations differ)
stores_land(m, st) ==
  {store_all(m, st, [i \in 1..Len(st) |-> p[i]]) : p \in Permutations(1..Len(st))}

\* "rotate backwards links": temp = start_node.prev; start_node.prev = *target_end;
\* *target_end = *range_end; *range_end = temp
\* faulty variant: the prev of the range's last node is rotated, not that of its first
rotate_backwards_mut_end_prev(m, range_start, range_end, target_end) ==
  LET start_prev == LocPrev(Rd(m, range_end))
      temp == Rd(m, start_prev)
      m1 == Wr(m, start_prev, Rd(m, target_end))
      m2 == Wr(m1, target_end, Rd(m1, range_end))
  IN {[res |-> "ok", m |-> Wr(m2, range_end, temp)]}
\* faulty variant: *range_end is not written
rotate_backwards_mut_keep_end(m, range_start, range_end, target_end) ==
  LET start_prev == LocPrev(Rd(m, range_start))
      m1 == Wr(m, start_prev, Rd(m, target_end))
  IN {[res |-> "ok", m |-> Wr(m1, target_end, Rd(m1, range_end))]}
rotate_backwards(m, range_start, range_end, target_end) ==
  LET start_prev == LocPrev(Rd(m, range_start))
      temp == Rd(m, start_prev)
      s1 == copy_nonoverlapping(m, m, target_end, start_prev)
      s2 == UNION {IF o.res = "ok"
                   THEN {[res |-> q.res, m |-> q.m,
                          st |-> <<<<start_prev, Rd(o.m, start_prev)>>,
                                   <<target_end, Rd(q.m, target_end)>>>>]
                         : q \in copy_nonoverlapping(m, o.m, range_end, target_end)}
                   ELSE {[res |-> o.res, m |-> o.m, st |-> <<>>]} : o \in s1}
  IN UNION {IF o.res = "ok"
            THEN {[res |-> "ok", m |-> x]
                  : x \in stores_land(Wr(o.m, range_end, temp),
                                      Append(o.st, <<range_end, temp>>))}
            ELSE {[res |-> o.res, m |-> o.m]} : o \in s2}

\* "rotate forwards links": temp = *range_start; *range_start = before_end_node.next;
\* before_end_node.next = *target_start; *target_start = temp.  The block reads
\* Link locations only and the backwards rotation wrote Rawlink locations
\* only: what the block's references saw at the call is what they see in m
\* faulty variant: *range_start and *target_start are exchanged, the end node's next is left alone
rotate_forwards_mut_swap(m, before_end_node, range_start, target_start) ==
  LET temp == Rd(m, range_start)
      m1 == Wr(m, range_start, Rd(m, target_start))
  IN {[res |-> "ok", m |-> Wr(m1, target_start, temp)]}
rotate_forwards(m, before_end_node, range_start, target_start) ==
  LET end_next == LocNext(before_end_node)
      temp == Rd(m, range_start)
      s1 == copy_nonoverlapping(m, m, end_next, range_start)
      s2 == UNION {IF o.res = "ok"
                   THEN {[res |-> q.res, m |-> q.m,
                          st |-> <<<<range_start, Rd(o.m, range_start)>>,
                                   <<end_next, Rd(q.m, end_next)>>>>]
                         : q \in copy_nonoverlapping(m, o.m, target_start, end_next)}
                   ELSE {[res |-> o.res, m |-> o.m, st |-> <<>>]} : o \in s1}
  IN UNION {IF o.res = "ok"
            THEN {[res |-> "ok", m |-> x]
                  : x \in stores_land(Wr(o.m, target_start, temp),
                                      Append(o.st, <<target_start, temp>>))}
            ELSE {[res |-> o.res, m |-> o.m]} : o \in s2}

\* insert_slice(range_start, range_end, target_start, target_end): the ways
\* the call can end, "ok", "panic" or "abort", and the memory each leaves
\* faulty variant: range_end is tested after the backwards links were rotated
insert_slice_mut_late_check(m, range_start, range_end, target_start, target_end) ==
  IF Rd(m, range_start) = NONE THEN {[m |-> m, res |-> "panic"]}
  ELSE LET s1 == rotate_backwards(m, range_start, range_end, target_end)
       IN IF Rd(m, range_end) = NONE THEN {[m |-> o.m, res |-> "panic"] : o \in s1}
          ELSE UNION {rotate_forwards(o.m, Rd(m, range_end), range_start, target_start) : o \in s1}
insert_slice(m, range_start, range_end, target_start, target_end) ==
  IF Rd(m, range_start) = NONE
  THEN \* panic!("range_start must not be none")
       {[m |-> m, res |-> "panic"]}
  ELSE IF Rd(m, range_end) = NONE
  THEN \* panic!("range_end must not be none")
       {[m |-> m, res |-> "panic"]}
  ELSE LET before_end_node == Rd(m, range_end)
           s1 == rotate_backwards(m, range_start, range_end, target_end)
       IN UNION {IF o.res = "ok"
                 THEN rotate_forwards(o.m, before_end_node, range_start, target_start)
                 ELSE {o} : o \in s1}

\* ------------------------------------------------------------ the program
\* the memory the operations work on
Mem == [heap |-> heap, bufs |-> bufs]

\* the nodes of buffer b's list, head to tail, and of its chain of empty nodes
List(m, b) == Chain(m.heap, m.bufs[b].first, MaxNodes)
Empties(m, b) == Chain(m.heap, m.bufs[b].first_empty, MaxNodes)
\* the stored elements of buffer b, head to tail
Contents(m, b) == ValuesOf(m.heap, List(m, b))

\* the location holding the forward link to the i-th node of the list l of
\* buffer b (i = length + 1: the link after the tail)
FwdLoc(b, l, i) == IF i = 1 THEN LocFirst(b) ELSE LocNext(l[i - 1])
\* the location holding the backward link to the j-th node of the list l of
\* buffer b (j = 0: the link before the head)
BackLoc(b, l, j) == IF j = Len(l) THEN LocLast(b) ELSE LocPrev(l[j + 1])

\* the calls of insert_slice from buffer x to buffer y: a range i..j of x's
\* list, or boundaries of which one holds none, and an insertion point after
\* the p-th node of y's list
CallsBetween(m, x, y) ==
  LET lx == List(m, x)
      ly == List(m, y)
  IN { <<FwdLoc(x, lx, t[1]), BackLoc(x, lx, t[2]), FwdLoc(y, ly, t[3] + 1), BackLoc(y, ly, t[3])>> :
       t \in { u \in (1..Len(lx) + 1) \X (0..Len(lx)) \X (0..Len(ly)) :
               u[1] <= u[2] \/ u[1] = Len(lx) + 1 \/ u[2] = 0 } }

\* the calls of insert_slice the program makes
SpliceCalls(m) ==
  UNION { CallsBetween(m, xy[1], xy[2]) :
          xy \in { z \in (DOMAIN m.bufs) \X (DOMAIN m.bufs) : z[1] # z[2] } }

NoRun == [k |-> -1, j |-> -1]

\* the state after the constructors: the buffers named in caps, each new(caps[b])
RECURSIVE Construct(_, _, _)
Construct(m, caps, todo) ==
  IF todo = {} THEN m
  ELSE LET b == CHOOSE x \in todo : \A y \in todo : x = y \/ x = "A"
           r == new(m.heap, caps[b])
       IN Construct([heap |-> r.heap, bufs |-> (b :> r.buf) @@ m.bufs], caps, todo \ {b})

InitWith(caps) ==
  LET m == Construct([heap |-> [a \in NodeIds |-> Unused], bufs |-> <<>>], caps, DOMAIN caps)
  IN /\ heap = m.heap
     /\ bufs = m.bufs
     /\ new_arg = caps
     /\ ret = [op |-> "new", b |-> "-", res |-> "ok", val |-> NONE, args |-> <<>>]
     /\ enq_hist = [b \in DOMAIN caps |-> <<>>]
     /\ deq_hist = [b \in DOMAIN caps |-> <<>>]
     /\ reuse = [b \in DOMAIN caps |-> IF caps[b] = 0 THEN [k |-> 0, j |-> 0] ELSE NoRun]
     /\ pc = 0
     /\ pre = m

\* one buffer, of any capacity
Init == \E c \in 0..MaxCap : InitWith("A" :> c)

\* two buffers, whose lists insert_slice is applied to
SpliceInit == InitWith(("A" :> MaxLenA) @@ ("B" :> MaxLenB))

Enqueue(b, v) ==
  \E r \in enqueue(Mem, b, v) :
  /\ pc = 0
  /\ ret.res \notin {"panic", "abort"}
  /\ r.res # "ok" \/ Len(enq_hist[b]) < MaxEnq
  /\ heap' = r.m.heap
  /\ bufs' = r.m.bufs
  /\ ret' = [op |-> "enqueue", b |-> b, res |-> r.res, val |-> v, args |-> <<>>]
  /\ enq_hist' = IF r.res = "ok" THEN [enq_hist EXCEPT ![b] = Append(@, v)] ELSE enq_hist
  /\ reuse' = IF r.res # "ok" THEN reuse
              ELSE IF reuse[b].k >= 0 /\ reuse[b].j < reuse[b].k
                   THEN [reuse EXCEPT ![b].j = @ + 1]
              ELSE IF r.m.bufs[b].size = r.m.bufs[b].capacity
                   THEN [reuse EXCEPT ![b] = [k |-> 0, j |-> 0]]
              ELSE [reuse EXCEPT ![b] = NoRun]
  /\ UNCHANGED <<new_arg, deq_hist, pc, pre>>

Dequeue(b) ==
  \E r \in dequeue(Mem, b) :
  /\ pc = 0
  /\ ret.res \notin {"panic", "abort"}
  /\ heap' = r.m.heap
  /\ bufs' = r.m.bufs
  /\ ret' = [op |-> "dequeue", b |-> b, res |-> r.res, val |-> r.val, args |-> <<>>]
  /\ deq_hist' = IF r.res = "some" THEN [deq_hist EXCEPT ![b] = Append(@, r.val)] ELSE deq_hist
  /\ reuse' = IF r.res # "some" THEN reuse
              ELSE IF reuse[b].k >= 0 /\ reuse[b].j = 0
                   THEN [reuse EXCEPT ![b].k = @ + 1]
              ELSE IF reuse[b].k >= 0 /\ reuse[b].j = reuse[b].k
                   THEN [reuse EXCEPT ![b] = [k |-> 1, j |-> 0]]
              ELSE [reuse EXCEPT ![b] = NoRun]
  /\ UNCHANGED <<new_arg, enq_hist, pc, pre>>

InsertSlice(a) ==
  \E r \in insert_slice(Mem, a[1], a[2], a[3], a[4]) :
  /\ ret.res \notin {"panic", "abort"}
  /\ heap' = r.m.heap
  /\ bufs' = r.m.bufs
  /\ ret' = [op |-> "insert_slice", b |-> "-", res |-> r.res, val |-> NONE, args |-> a]
  /\ pc' = IF r.res = "ok" THEN pc + 1 ELSE pc
  /\ pre' = IF r.res = "ok" /\ pc = 0 THEN Mem ELSE pre
  /\ UNCHANGED <<new_arg, enq_hist, deq_hist, reuse>>

\* a first call of insert_slice
Splice == pc = 0 /\ \E a \in SpliceCalls(Mem) : InsertSlice(a)

\* after a successful call, the call with range and target exchanged
SpliceBack ==
  /\ pc = 1
  /\ InsertSlice(<<ret.args[3], ret.args[4], ret.args[1], ret.args[2]>>)

Next ==
  \/ \E b \in DOMAIN bufs, v \in Values : Enqueue(b, v)
  \/ \E b \in DOMAIN bufs : Dequeue(b)

Spec == Init /\ [][Next]_vars

\* the lists insert_slice is applied to hold values that differ from each
\* other: the i-th element of A is i, the i-th element of B is MaxLenA + i
Fresh(b) == IF b = "A" THEN Len(enq_hist[b]) + 1 ELSE MaxLenA + Len(enq_hist[b]) + 1

SpliceNext ==
  \/ \E b \in DOMAIN bufs : Enqueue(b, Fresh(b))
  \/ Splice
  \/ SpliceBack

SpliceSpec == SpliceInit /\ [][SpliceNext]_vars

\* -------------------------------------------------------------- sanity
TypeOK ==
  /\ \A a \in NodeIds : heap[a].next \in NodeIds \cup {NONE} /\ heap[a].prev \in NodeIds \cup {NONE}
  /\ pc \in 0..2

\* no link holds the address of a freed node
NoDangling ==
  /\ \A a \in NodeIds : heap[a].alloc =>
        /\ heap[a].next # NONE => heap[heap[a].next].alloc
        /\ heap[a].prev # NONE => heap[heap[a].prev].alloc
  /\ \A b \in DOMAIN bufs : \A f \in {"first", "last", "first_empty", "last_empty"} :
        bufs[b][f] # NONE => heap[bufs[b][f]].alloc

\* ---------------------------------------------------------------- claims
\* s is an initial segment of t
IsPrefix(s, t) == Len(s) <= Len(t) /\ SubSeq(t, 1, Len(s)) = s

\* the position of node n in the list of nodes l, 0 if it is not in it
IndexOf(l, n) == IF \E i \in 1..Len(l) : l[i] = n THEN CHOOSE i \in 1..Len(l) : l[i] = n ELSE 0

\* C1: the values dequeue has returned are, in order, the first values that
\* were enqueued: the k-th dequeue returns the k-th enqueued value
C1_FifoOrder ==
  \A b \in DOMAIN bufs : IsPrefix(deq_hist[b], enq_hist[b])

\* three dequeues from a buffer of capacity 2 (enqueues and dequeues
\* interleave) that returned different values
C1_Witness ==
  /\ bufs["A"].capacity = usize(2)
  /\ Len(deq_hist["A"]) >= 3
  /\ deq_hist["A"][1] # deq_hist["A"][2]
  /\ deq_hist["A"][2] # deq_hist["A"][3]

\* C2: a call of enqueue on a buffer with size = capacity fails, and leaves
\* size, capacity and the stored sequence (nodes and values) as they were
C2_CapacityLaw ==
  [][ (ret'.op = "enqueue" /\ size(Mem, ret'.b) = capacity(Mem, ret'.b)) =>
        /\ ret'.res = "panic"
        /\ size(Mem', ret'.b) = size(Mem, ret'.b)
        /\ capacity(Mem', ret'.b) = capacity(Mem, ret'.b)
        /\ List(Mem', ret'.b) = List(Mem, ret'.b)
        /\ Contents(Mem', ret'.b) = Contents(Mem, ret'.b) ]_vars

\* a failed enqueue on a full buffer that holds two elements or more
C2_Witness ==
  /\ ret.op = "enqueue" /\ ret.res = "panic"
  /\ bufs["A"].size = bufs["A"].capacity
  /\ usize_ge(bufs["A"].size, usize(2))

\* C3 as stated: enqueue ends with Ok or with a returned capacity error,
\* never with a panic
C3_EnqueueReturnsResult ==
  ret.op = "enqueue" => ret.res \in {"ok", "err"}

\* C3 amended: enqueue ends either with a normal return or with the panic
\* "No remaining capacity to enqueue", and it panics exactly when the buffer
\* was full (size = capacity) at the call
C3_EnqueuePanicsWhenFull ==
  [][ ret'.op = "enqueue" =>
        /\ ret'.res \in {"ok", "panic"}
        /\ ret'.res = "panic" <=> usize_ge(size(Mem, ret'.b), capacity(Mem, ret'.b)) ]_vars

\* an enqueue that panicked on a full buffer of capacity 1 or more
C3_Witness ==
  /\ ret.op = "enqueue" /\ ret.res = "panic"
  /\ usize_ge(bufs[ret.b].capacity, usize(1))
  /\ bufs[ret.b].size = bufs[ret.b].capacity

\* C4 as stated: size() plus the number of nodes in the chain of empty nodes
\* (from first_empty) equals capacity()
C4_Conservation ==
  \A b \in DOMAIN bufs : usize_nat(size(Mem, b)) + Len(Empties(Mem, b)) = usize_nat(capacity(Mem, b))

\* C5: in a run "buffer full, k dequeues, then enqueues", the enqueue after j
\* successful ones succeeds exactly if j < k; the stored sequence is always
\* the not yet dequeued values in the order they were enqueued (old ones
\* before fresh ones), and dequeue returns its head
C5_ReuseLaw ==
  [][ /\ (ret'.op = "enqueue" /\ reuse[ret'.b].k >= 0) =>
            (ret'.res = "ok" <=> reuse[ret'.b].j < reuse[ret'.b].k)
      /\ \A b \in DOMAIN bufs :
            Contents(Mem', b) = SubSeq(enq_hist'[b], Len(deq_hist'[b]) + 1, Len(enq_hist'[b]))
      /\ (ret'.op = "dequeue" /\ ret'.res = "some") =>
            ret'.val = Head(Contents(Mem, ret'.b)) ]_vars

\* a buffer of capacity 3 that was full, had 2 elements dequeued, took 2
\* further enqueues and refused the 3rd
C5_Witness ==
  /\ bufs["A"].capacity = usize(3)
  /\ reuse["A"] = [k |-> 2, j |-> 2]
  /\ ret.op = "enqueue" /\ ret.res = "panic"

\* C6: size() is the number of nodes reachable from first, lies in
\* 0..capacity(), capacity() is the value passed to new
SizeInv ==
  \A b \in DOMAIN bufs :
    /\ size(Mem, b) = usize(Len(List(Mem, b)))
    /\ usize_ge(size(Mem, b), usize(0)) /\ usize_ge(capacity(Mem, b), size(Mem, b))
    /\ capacity(Mem, b) = usize(new_arg[b])

\* C6: SizeInv holds in every reachable state; a successful enqueue raises
\* size() by exactly 1 and a dequeue returning a value lowers it by exactly 1
C6_SizeLaw ==
  /\ SizeInv
  /\ [][ /\ SizeInv'
         /\ (ret'.op = "enqueue" /\ ret'.res = "ok") =>
               usize_nat(size(Mem', ret'.b)) = usize_nat(size(Mem, ret'.b)) + 1
         /\ (ret'.op = "dequeue" /\ ret'.res = "some") =>
               usize_nat(size(Mem', ret'.b)) = usize_nat(size(Mem, ret'.b)) - 1 ]_vars

\* a buffer that holds 3 elements after a dequeue and further enqueues
C6_Witness ==
  /\ bufs["A"].size = usize(3)
  /\ Len(deq_hist["A"]) >= 1
  /\ ret.op = "enqueue" /\ ret.res = "ok"

\* C7: dequeue returns None exactly when the buffer is empty, and then
\* changes nothing: size stays 0, first and last stay none, the chain of
\* empty nodes and every node are as before
C7_DequeueEmpty ==
  [][ ret'.op = "dequeue" =>
        /\ ret'.res = "none" <=> size(Mem, ret'.b) = usize(0)
        /\ size(Mem, ret'.b) = usize(0) =>
              /\ bufs' = bufs /\ heap' = heap
              /\ size(Mem', ret'.b) = usize(0)
              /\ bufs'[ret'.b].first = NONE /\ bufs'[ret'.b].last = NONE
              /\ Empties(Mem', ret'.b) = Empties(Mem, ret'.b) ]_vars

\* a dequeue that returned None on a buffer emptied by earlier dequeues
C7_Witness ==
  /\ ret.op = "dequeue" /\ ret.res = "none"
  /\ Len(deq_hist[ret.b]) >= 2
  /\ bufs[ret.b].size = usize(0)

\* the last call was a successful first insert_slice from buffer x to buffer y
Spliced(x, y) ==
  /\ pc = 1 /\ ret.op = "insert_slice" /\ ret.res = "ok"
  /\ ret.args[1] \in {LocFirst(x)} \cup {LocNext(n) : n \in Range(List(pre, x))}
  /\ ret.args[3] \in {LocFirst(y)} \cup {LocNext(n) : n \in Range(List(pre, y))}

\* C8: after insert_slice of a whole list (its first link, its last
\* back-link) into an empty destination, the source is empty, the
\* destination's start holds the former first node, its end points to the
\* former last node, and nodes and values are in the same order as before
C8_SpliceWholeIntoEmpty ==
  \A x \in DOMAIN bufs, y \in DOMAIN bufs :
    ( /\ Spliced(x, y)
      /\ ret.args = <<LocFirst(x), LocLast(x), LocFirst(y), LocLast(y)>>
      /\ pre.bufs[y].first = NONE /\ pre.bufs[y].last = NONE ) =>
    /\ bufs[x].first = NONE /\ bufs[x].last = NONE
    /\ bufs[y].first = pre.bufs[x].first
    /\ bufs[y].last = pre.bufs[x].last
    /\ List(Mem, x) = <<>>
    /\ List(Mem, y) = List(pre, x)
    /\ Contents(Mem, y) = Contents(pre, x)

\* a list of 3 nodes moved as a whole into an empty one
C8_Witness ==
  /\ Spliced("A", "B")
  /\ ret.args = <<LocFirst("A"), LocLast("A"), LocFirst("B"), LocLast("B")>>
  /\ pre.bufs["B"].first = NONE
  /\ Len(List(pre, "A")) = 3

\* C9: after insert_slice of the range i..j of list x into an empty list y,
\* x holds its other nodes in their order, y holds the range in its order,
\* the values are those of the nodes before, and every node of x is in
\* exactly one of the two lists, and so is every value
C9_SpliceConservation ==
  \A x \in DOMAIN bufs, y \in DOMAIN bufs :
    ( /\ Spliced(x, y)
      /\ ret.args[3] = LocFirst(y) /\ ret.args[4] = LocLast(y)
      /\ pre.bufs[y].first = NONE /\ pre.bufs[y].last = NONE ) =>
    LET lx == List(pre, x)
        i == IndexOf(lx, Rd(pre, ret.args[1]))
        j == IndexOf(lx, Rd(pre, ret.args[2]))
    IN /\ 1 <= i /\ i <= j
       /\ List(Mem, y) = SubSeq(lx, i, j)
       /\ List(Mem, x) = SubSeq(lx, 1, i - 1) \o SubSeq(lx, j + 1, Len(lx))
       /\ Contents(Mem, y) = SubSeq(Contents(pre, x), i, j)
       /\ Contents(Mem, x) = SubSeq(Contents(pre, x), 1, i - 1)
                                \o SubSeq(Contents(pre, x), j + 1, Len(lx))
       /\ Len(List(Mem, x)) + Len(List(Mem, y)) = Len(lx)
       /\ \A n \in Range(lx) :
             (n \in Range(List(Mem, x))) # (n \in Range(List(Mem, y)))
       /\ \A v \in Range(Contents(pre, x)) :
             Cardinality({k \in 1..Len(List(Mem, x)) : Contents(Mem, x)[k] = v})
               + Cardinality({k \in 1..Len(List(Mem, y)) : Contents(Mem, y)[k] = v}) = 1

\* the middle node of a list of 3 moved into an empty list
C9_Witness ==
  /\ Spliced("A", "B")
  /\ pre.bufs["B"].first = NONE
  /\ Len(List(pre, "A")) = 3
  /\ ret.args = <<LocNext(List(pre, "A")[1]), LocPrev(List(pre, "A")[3]),
                  LocFirst("B"), LocLast("B")>>

\* C10: a call of insert_slice whose range_start or range_end holds none
\* panics, and leaves the four boundary locations and every node unchanged
C10_NullRejected ==
  [][ ( /\ ret'.op = "insert_slice"
        /\ Rd(Mem, ret'.args[1]) = NONE \/ Rd(Mem, ret'.args[2]) = NONE ) =>
        /\ ret'.res = "panic"
        /\ \A i \in 1..4 : Rd(Mem', ret'.args[i]) = Rd(Mem, ret'.args[i])
        /\ heap' = heap /\ bufs' = bufs ]_vars

\* a call that panicked with range_start holding a node and range_end none,
\* at a target that held a node
C10_Witness ==
  /\ ret.op = "insert_slice" /\ ret.res = "panic"
  /\ Rd(Mem, ret.args[1]) # NONE
  /\ Rd(Mem, ret.args[2]) = NONE
  /\ Rd(Mem, ret.args[4]) # NONE

\* C11: a buffer built with new(0) has size() = 0 and capacity() = 0 in every
\* reachable state, holds no node in its list, every enqueue on it fails and
\* every dequeue on it returns None
C11_ZeroCapacity ==
  \A b \in DOMAIN bufs : new_arg[b] = 0 =>
    /\ size(Mem, b) = usize(0) /\ capacity(Mem, b) = usize(0)
    /\ List(Mem, b) = <<>>
    /\ enq_hist[b] = <<>> /\ deq_hist[b] = <<>>
    /\ (ret.op = "enqueue" /\ ret.b = b) => ret.res = "panic"
    /\ (ret.op = "dequeue" /\ ret.b = b) => ret.res = "none"

\* an enqueue on a buffer built with new(0) has failed
C11_Witness ==
  /\ new_arg["A"] = 0
  /\ ret.op = "enqueue" /\ ret.b = "A" /\ ret.res = "panic"

\* C12 as stated: right after new(capacity), size() = 0, first and last are
\* none, and the chain from first_empty holds exactly capacity nodes, all
\* different, each without a value, its head with prev none, its last node
\* with next none and pointed to by last_empty
C12_InitialState ==
  \A b \in DOMAIN bufs : ret.op = "new" =>
    LET e == Empties(Mem, b) IN
    /\ size(Mem, b) = usize(0)
    /\ bufs[b].first = NONE /\ bufs[b].last = NONE
    /\ Len(e) = new_arg[b]
    /\ Cardinality(Range(e)) = Len(e)
    /\ \A n \in Range(e) : heap[n].value = NONE
    /\ Len(e) > 0 =>
          /\ heap[e[1]].prev = NONE
          /\ heap[e[Len(e)]].next = NONE
          /\ bufs[b].last_empty = e[Len(e)]

\* C13: in every state reached by enqueue and dequeue calls, first is none
\* iff last is none iff size() = 0; in a non-empty list the head's prev is
\* none, last is the one node of the list whose next is none, no node occurs
\* twice, and n.prev = s whenever s.next = n; so the node enqueue appends to
\* has next none and the assertion of set_next never makes enqueue panic
C13_LinkInvariants ==
  /\ \A b \in DOMAIN bufs :
       LET l == List(Mem, b) IN
       /\ (bufs[b].first = NONE) <=> (bufs[b].last = NONE)
       /\ (bufs[b].first = NONE) <=> (size(Mem, b) = usize(0))
       /\ l # <<>> =>
             /\ heap[l[1]].prev = NONE
             /\ bufs[b].last = l[Len(l)]
             /\ {n \in Range(l) : heap[n].next = NONE} = {bufs[b].last}
             /\ Cardinality(Range(l)) = Len(l)
             /\ \A i \in 1..Len(l) - 1 : heap[l[i + 1]].prev = l[i]
  /\ (ret.op = "enqueue" /\ ret.res = "panic") =>
        usize_ge(size(Mem, ret.b), capacity(Mem, ret.b))

\* a list of 3 nodes after two dequeues: nodes were removed at the head and
\* appended at the tail
C13_Witness ==
  /\ Len(List(Mem, "A")) = 3
  /\ Len(deq_hist["A"]) >= 2
  /\ ret.op = "enqueue" /\ ret.res = "ok"

\* C14: every node of the list holds a value, every node of the chain of
\* empty nodes holds none, and dequeue never panics on a missing value
C14_Occupancy ==
  /\ \A b \in DOMAIN bufs :
       /\ \A n \in Range(List(Mem, b)) : heap[n].alloc /\ heap[n].value # NONE
       /\ \A n \in Range(Empties(Mem, b)) : heap[n].alloc /\ heap[n].value = NONE
  /\ ret.op = "dequeue" => ret.res # "panic"
  /\ (ret.op = "dequeue" /\ ret.res = "some") => ret.val # NONE

\* a dequeue has returned a value while the list and the chain of empty
\* nodes both hold nodes
C14_Witness ==
  /\ ret.op = "dequeue" /\ ret.res = "some"
  /\ Len(List(Mem, "A")) >= 1
  /\ Len(Empties(Mem, "A")) >= 2

\* the addresses that hold a live node
Live(m) == {a \in NodeIds : m.heap[a].alloc}

\* C15 as stated: a successful enqueue takes its node from the chain of empty
\* nodes (the chain is one node shorter, no node is created); a dequeue that
\* returns a value puts the removed node, its value cleared, back onto the
\* chain (one node longer, no node is destroyed); a failed enqueue and an
\* empty dequeue leave the chain unchanged
C15_SlotLifecycle ==
  [][ /\ (ret'.op = "enqueue" /\ ret'.res = "ok") =>
            /\ Len(Empties(Mem', ret'.b)) = Len(Empties(Mem, ret'.b)) - 1
            /\ Live(Mem') = Live(Mem)
            /\ bufs'[ret'.b].last \in Range(Empties(Mem, ret'.b))
      /\ (ret'.op = "dequeue" /\ ret'.res = "some") =>
            /\ Len(Empties(Mem', ret'.b)) = Len(Empties(Mem, ret'.b)) + 1
            /\ Live(Mem') = Live(Mem)
            /\ bufs[ret'.b].first \in Range(Empties(Mem', ret'.b))
            /\ heap'[bufs[ret'.b].first].value = NONE
      /\ (ret'.op \in {"enqueue", "dequeue"} /\ ret'.res \in {"panic", "none"}) =>
            Empties(Mem', ret'.b) = Empties(Mem, ret'.b) ]_vars

\* C16 as stated: when target_start holds a node, after the call that node is
\* what range_start holds and the range is what target_start holds, and the
\* next of the range's last node and target_start have traded values
C16_TwoWayExchange ==
  \A x \in DOMAIN bufs, y \in DOMAIN bufs :
    (Spliced(x, y) /\ Rd(pre, ret.args[3]) # NONE) =>
    LET e == Rd(pre, ret.args[2]) IN
    /\ Rd(Mem, ret.args[1]) = Rd(pre, ret.args[3])
    /\ Rd(Mem, ret.args[3]) = Rd(pre, ret.args[1])
    /\ heap[e].next = Rd(pre, ret.args[3])
    /\ Rd(Mem, ret.args[3]) = pre.heap[e].next

\* C16 amended: the three forward links are rotated.  When target_start holds
\* a node, after the call target_start holds the range's first node, the next
\* of the range's last node holds the node target_start held, and range_start
\* holds what the next of the range's last node held (the source's node after
\* the range, or none); the node target_start held is not in the source list
C16_ForwardRotation ==
  \A x \in DOMAIN bufs, y \in DOMAIN bufs :
    (Spliced(x, y) /\ Rd(pre, ret.args[3]) # NONE) =>
    LET e == Rd(pre, ret.args[2]) IN
    /\ Rd(Mem, ret.args[3]) = Rd(pre, ret.args[1])
    /\ heap[e].next = Rd(pre, ret.args[3])
    /\ Rd(Mem, ret.args[1]) = pre.heap[e].next
    /\ Rd(Mem, ret.args[1]) # Rd(pre, ret.args[3])
    /\ Rd(pre, ret.args[3]) \notin Range(List(Mem, x))

\* a range that a node follows in the source, inserted where target_start
\* held a node
C16_Witness ==
  /\ Spliced("A", "B")
  /\ Rd(pre, ret.args[3]) # NONE
  /\ pre.heap[Rd(pre, ret.args[2])].next # NONE

\* every location that holds a link
AllLocs(m) ==
  {LocFirst(b) : b \in DOMAIN m.bufs} \cup {LocLast(b) : b \in DOMAIN m.bufs}
    \cup {LocNext(n) : n \in NodeIds} \cup {LocPrev(n) : n \in NodeIds}

\* the nodes of the range of the call with arguments a, first to last
RangeNodes(m, a) ==
  LET c == Chain(m.heap, Rd(m, a[1]), MaxNodes)
  IN SubSeq(c, 1, IndexOf(c, Rd(m, a[2])))

\* C17: a successful insert_slice changes no node's value, creates and frees
\* no node, leaves size, capacity and the chain of empty nodes of every buffer
\* alone, leaves the links inside the range alone, and writes no location but
\* range_start, range_end, target_start, target_end, the prev of the range's
\* first node and the next of its last node
C17_SpliceFrame ==
  [][ (ret'.op = "insert_slice" /\ ret'.res = "ok") =>
        LET a == ret'.args
            r == RangeNodes(Mem, a)
            written == {a[1], a[2], a[3], a[4], LocPrev(r[1]), LocNext(r[Len(r)])}
        IN /\ Len(r) >= 1
           /\ \A n \in NodeIds : /\ heap'[n].value = heap[n].value
                                 /\ heap'[n].alloc = heap[n].alloc
           /\ \A b \in DOMAIN bufs :
                 /\ size(Mem', b) = size(Mem, b)
                 /\ capacity(Mem', b) = capacity(Mem, b)
                 /\ bufs'[b].first_empty = bufs[b].first_empty
                 /\ bufs'[b].last_empty = bufs[b].last_empty
                 /\ Empties(Mem', b) = Empties(Mem, b)
                 /\ \A n \in Range(Empties(Mem, b)) : heap'[n] = heap[n]
           /\ \A i \in 1..Len(r) - 1 : heap'[r[i]].next = heap[r[i]].next
           /\ \A i \in 2..Len(r) : heap'[r[i]].prev = heap[r[i]].prev
           /\ \A l \in AllLocs(Mem) \ written : Rd(Mem', l) = Rd(Mem, l) ]_vars

\* a range of 3 nodes was inserted between the two nodes of the other list
C17_Witness ==
  /\ Spliced("A", "B")
  /\ Len(List(pre, "A")) = 3 /\ Len(List(pre, "B")) = 2
  /\ ret.args = <<LocFirst("A"), LocLast("A"),
                  LocNext(List(pre, "B")[1]), LocPrev(List(pre, "B")[2])>>

\* the list l is linked both ways: its head has prev none, its tail has next
\* none, and n.prev = s whenever s.next = n
WellLinked(m, l) ==
  l # <<>> =>
    /\ m.heap[l[1]].prev = NONE
    /\ m.heap[l[Len(l)]].next = NONE
    /\ \A i \in 1..Len(l) - 1 : m.heap[l[i]].next = l[i + 1] /\ m.heap[l[i + 1]].prev = l[i]

\* C18: after insert_slice of the range i..j of list x at the insertion point
\* after the p-th node of a non-empty list y, y reads its first p nodes, the
\* range, its other nodes; x reads x without the range; no node of y is in
\* x; and both lists are linked both ways
C18_PureMove ==
  \A x \in DOMAIN bufs, y \in DOMAIN bufs :
    (Spliced(x, y) /\ List(pre, y) # <<>>) =>
    LET lx == List(pre, x)
        ly == List(pre, y)
        i == IndexOf(lx, Rd(pre, ret.args[1]))
        j == IndexOf(lx, Rd(pre, ret.args[2]))
        p == IF ret.args[3] = LocFirst(y) THEN 0 ELSE IndexOf(ly, ret.args[3].n)
    IN /\ 1 <= i /\ i <= j
       /\ List(Mem, y) = SubSeq(ly, 1, p) \o SubSeq(lx, i, j) \o SubSeq(ly, p + 1, Len(ly))
       /\ List(Mem, x) = SubSeq(lx, 1, i - 1) \o SubSeq(lx, j + 1, Len(lx))
       /\ Range(ly) \cap Range(List(Mem, x)) = {}
       /\ Contents(Mem, y) = ValuesOf(pre.heap, List(Mem, y))
       /\ Contents(Mem, x) = ValuesOf(pre.heap, List(Mem, x))
       /\ WellLinked(Mem, List(Mem, x))
       /\ WellLinked(Mem, List(Mem, y))

\* the middle node of a list of 3 was inserted between the two nodes of the
\* other list
C18_Witness ==
  /\ Spliced("A", "B")
  /\ Len(List(pre, "A")) = 3 /\ Len(List(pre, "B")) = 2
  /\ ret.args = <<LocNext(List(pre, "A")[1]), LocPrev(List(pre, "A")[3]),
                  LocNext(List(pre, "B")[1]), LocPrev(List(pre, "B")[2])>>

\* C19: after a successful insert_slice, the call with range and target
\* exchanged succeeds and restores the four boundary locations, every node's
\* next and prev, and with them the whole memory, to what they were before
\* the first call
C19_RoundTrip ==
  /\ (pc = 1 /\ ret.op = "insert_slice") => ret.res = "ok"
  /\ pc = 2 =>
       /\ \A i \in 1..4 : Rd(Mem, ret.args[i]) = Rd(pre, ret.args[i])
       /\ \A n \in NodeIds : /\ heap[n].next = pre.heap[n].next
                             /\ heap[n].prev = pre.heap[n].prev
       /\ heap = pre.heap /\ bufs = pre.bufs

\* a range of 2 nodes that a node precedes was moved to a boundary that held
\* a node, and moved back
C19_Witness ==
  /\ pc = 2
  /\ Rd(pre, ret.args[1]) # NONE /\ Rd(pre, ret.args[2]) # NONE
  /\ Len(RangeNodes(pre, <<ret.args[3], ret.args[4]>>)) = 2
  /\ pre.heap[Rd(pre, ret.args[3])].prev # NONE

====
